---- MODULE Spec2Model ----
(***************************************************************************)
(* File-lifecycle and orchestration layer of the file converter service:   *)
(* the four conversion executors of ConversionService, the four request    *)
(* handlers of the conversion router, the exception handlers of the app    *)
(* and the scratch directory they share.                                   *)
(*                                                                         *)
(* One request is one coroutine on the event loop.  An action is the code  *)
(* the coroutine runs between two suspension points (await), or one step   *)
(* of a pool thread, of the external converter process or of the client.   *)
(* The conversion engines are black boxes: every outcome they can have     *)
(* (return or raise, output written or not) is a nondeterministic choice.  *)
(***************************************************************************)
EXTENDS Integers, Sequences, FiniteSets, TLC

(* ---------------------------- bounds ----------------------------------- *)

\* requests the service receives, all of which may be in flight together
NumReqs == 2
\* the files of a list uploaded to /images-to-pdf
MaxFiles == 2
\* largest small pixel dimension of an uploaded image; images as wide or as
\* high as the page are uploaded as well
MaxDim == 3
\* most pages of a PDF uploaded to /pdf-to-images
MaxPages == 4

Reqs == 1..NumReqs

(* ------------------------- content types ------------------------------- *)

PDF_TYPE  == "application/pdf"
DOCX_TYPE == "application/vnd.openxmlformats-officedocument.wordprocessingml.document"
PNG_TYPE  == "image/png"
TEXT_TYPE == "text/plain"

\* declared content types the clients of the model send
ContentTypes == {PDF_TYPE, DOCX_TYPE, PNG_TYPE, TEXT_TYPE}

allowed_content_types == {"image/jpeg", "image/png", "image/gif", "image/bmp"}

Kinds == {"pdf-to-word", "word-to-pdf", "images-to-pdf", "pdf-to-images"}

\* the uploads of one request: exactly one file, or a list for /images-to-pdf,
\* which is empty or has MaxFiles files, any of them an image or not
Uploads(k) ==
    IF k = "images-to-pdf"
    THEN UNION {[1..n -> {PNG_TYPE, TEXT_TYPE}] : n \in {0, MaxFiles}}
    ELSE {<<ct>> : ct \in ContentTypes}

(* --------------------------- credentials ------------------------------- *)

NoHeader == "<no X-API-Key header>"
API_KEYS_LIST == {"key-1"}
Headers == {NoHeader, "key-1", "key-x"}

\* dependencies declared on the router, on include_router and on the endpoints
\* that take part in access control: none is declared anywhere
RouteDependencies == {}

\* the access gate: APIKeyHeader(auto_error=True) rejects a missing header,
\* get_api_key rejects a value outside the list
get_api_key(h) ==
    IF h = NoHeader THEN [ok |-> FALSE, status |-> 403, detail |-> "Not authenticated"]
    ELSE IF h \notin API_KEYS_LIST
         THEN [ok |-> FALSE, status |-> 403, detail |-> "Invalid API Key."]
         ELSE [ok |-> TRUE, status |-> 0, detail |-> ""]

(* ------------------------------ text ----------------------------------- *)
(* A text is a sequence of pieces; a piece is a sequence of strings: a     *)
(* literal of the source is the piece <<literal>>, a decoded byte string   *)
(* is the piece of its characters.  An f-string is the sequence of its     *)
(* pieces.                                                                 *)

Lit(s) == <<s>>

\* bytes are sequences of 0..255
EmptyBytes   == <<>>
TextBytes    == <<69, 114, 114>>
InvalidBytes == <<255>>
\* what the converter of the model writes to standard error
StderrValues == {EmptyBytes, TextBytes}

Chr(b) == CASE b = 69 -> "E" [] b = 114 -> "r" [] OTHER -> "?"

\* bytes.decode('utf-8') on the bytes of the model: a byte below 128 is its
\* ASCII character, a lone byte of 128 or more is no valid UTF-8
Utf8Valid(b) == \A i \in DOMAIN b : b[i] < 128
Utf8Decode(b) == [i \in DOMAIN b |-> Chr(b[i])]

(* ---------------------------- exceptions ------------------------------- *)

AppException(type, status_code, message, details) ==
    [type |-> type, app |-> TRUE, status_code |-> status_code,
     message |-> message, details |-> details]

ConversionError(details) ==
    AppException("ConversionError", 422, "File conversion failed.", details)

FileValidationError(details) ==
    AppException("FileValidationError", 400, "Invalid file provided.", details)

\* an exception raised by a library, the runtime or the operating system
OtherException(type, message) ==
    [type |-> type, app |-> FALSE, status_code |-> 0,
     message |-> message, details |-> <<>>]

\* repr(e) and str(e): Exception.__init__ receives the message only, so the
\* details of an AppException are in neither
Repr(e) == <<e.type, "('", e.message, "')">>
Str(e)  == <<e.message>>

(* ----------------------------- responses ------------------------------- *)
(* A response is its HTTP status code and its content.                     *)

JSONResponse(status_code, content) == [status_code |-> status_code, content |-> content]

\* the ErrorResponse model of the response schema
ErrorResponse(message, details) ==
    [status |-> "error", message |-> message, details |-> details]

\* content that is no ErrorResponse: nothing, or the bytes of a file
NoContent   == [status |-> "", message |-> "", details |-> <<>>]
FileContent == [status |-> "", message |-> "<file>", details |-> <<>>]

NoResponse == JSONResponse(0, NoContent)

app_exception_handler(exc) ==
    JSONResponse(exc.status_code, ErrorResponse(exc.message, exc.details))

generic_exception_handler_echo(exc) ==
    JSONResponse(500, ErrorResponse("An unexpected internal server error occurred.",
                                    <<Repr(exc)>>))

generic_exception_handler(exc) ==
    JSONResponse(500, ErrorResponse("An unexpected internal server error occurred.",
                                    <<Lit("Please contact support.")>>))

\* the handler the app picks for an exception that leaves an endpoint
ExceptionHandler(exc) ==
    IF exc.app THEN app_exception_handler(exc) ELSE generic_exception_handler(exc)

FileResponse == JSONResponse(200, FileContent)

(* --------------------------- scratch paths ----------------------------- *)
(* os.path.join(settings.TEMP_FILE_DIR, f"{id}{ext}") is the pair          *)
(* <<id, ext>>; the per-job directory has the empty extension.             *)

uuid4Fixed(r) == 1

\* uuid.uuid4() as request r draws it: 122 random bits, so that two requests
\* never draw the same identifier
uuid4(r) == r

Path(id, ext) == <<id, ext>>

\* os.path.splitext(p)[0] + ext
ReplaceExt(p, ext) == <<p[1], ext>>

\* the paths a job with identifier id uses
PathsOfId(id) == {Path(id, e) : e \in {".pdf", ".docx", ".zip", ""}}

NoPath == <<>>

(* ---------------------------- page layout ------------------------------ *)
(* The layout of _processing_task in convert_images_to_pdf.  Python divides *)
(* into floats; here a number is the exact fraction n/d in lowest terms,   *)
(* d > 0, so that equal numbers are equal records.                         *)

RECURSIVE GCD(_, _)
GCD(a, b) == IF b = 0 THEN a ELSE GCD(b, a % b)

Abs(k) == IF k < 0 THEN 0 - k ELSE k

Rat(n, d) ==
    LET g == GCD(Abs(n), d) IN [n |-> n \div g, d |-> d \div g]

Num(k) == [n |-> k, d |-> 1]

RatAdd(a, b) == Rat(a.n * b.d + b.n * a.d, a.d * b.d)
RatSub(a, b) == Rat(a.n * b.d - b.n * a.d, a.d * b.d)
RatMul(a, b) == Rat(a.n * b.n, a.d * b.d)
\* a / b for b > 0
RatDiv(a, b) == Rat(a.n * b.d, a.d * b.n)
RatLE(a, b)  == a.n * b.d <= b.n * a.d

max(a, b) == IF RatLE(a, b) THEN b ELSE a

\* the builtin min of two numbers
min(a, b) == IF RatLE(a, b) THEN a ELSE b

\* fitz.paper_size("a4"), in points
A4_WIDTH  == 595
A4_HEIGHT == 842

\* pixel dimensions Image.open reports: positive integers
Dims == (1..MaxDim) \cup {A4_WIDTH, A4_HEIGHT}
ImageSizes == Dims \X Dims

\* the uploads of one request that passed _validate_image_files: one or more
ImageLists == UNION {[1..k -> ImageSizes] : k \in 1..MaxFiles}

\* fitz.Rect(x0, y0, x1, y1) computed for an image of img_width x img_height
\* on a page of page_width x page_height
image_rect(page_width, page_height, img_width, img_height) ==
    LET scale_w == RatDiv(Num(page_width), Num(img_width))
        scale_h == RatDiv(Num(page_height), Num(img_height))
        scale   == min(scale_w, scale_h)
        final_w == RatMul(Num(img_width), scale)
        final_h == RatMul(Num(img_height), scale)
        x0 == RatDiv(RatSub(Num(page_width), final_w), Num(2))
        y0 == RatDiv(RatSub(Num(page_height), final_h), Num(2))
        x1 == RatAdd(x0, final_w)
        y1 == RatAdd(y0, final_h)
    IN [x0 |-> x0, y0 |-> y0, x1 |-> x1, y1 |-> y1]

\* pdf_doc.new_page(width, height) followed by page.insert_image(rect, stream)
\* for the i-th upload: the page, the rectangle and the image drawn in it
new_page(i, size) ==
    [width |-> A4_WIDTH, height |-> A4_HEIGHT, stream |-> i,
     rect |-> image_rect(A4_WIDTH, A4_HEIGHT, size[1], size[2])]

(* ------------------------- pages and archive --------------------------- *)
(* The names _processing_task of convert_pdf_to_images gives to the page   *)
(* images and to the entries of the archive.  A file name is its stem, its *)
(* number and its extension; an entry name is a directory and a file name. *)

\* f"page_{page_num + 1}.png"
page_png(page_num) == [stem |-> "page_", number |-> page_num + 1, ext |-> ".png"]

\* the directory of an entry name that has no directory component
Flat == "."
\* temp_image_dir as os.walk yields it in root
JobDir == "job_id"

arcname_path(root, file) == [dir |-> root, file |-> file]

\* the entry name zipf.write(os.path.join(root, file), arcname=file) records
arcname(root, file) == [dir |-> Flat, file |-> file]

\* the orders in which os.walk may list the files of a directory
Listings(dir) ==
    {l \in [1..Cardinality(dir) -> dir] :
        \A i, j \in DOMAIN l : i # j => l[i] # l[j]}

(* ---------------------------- validation ------------------------------- *)
(* A validator is the sequence of the exceptions it raises: empty when it  *)
(* returns.                                                                *)

_validate_pdf_file(ct) ==
    IF ct # PDF_TYPE
    THEN <<ConversionError(<<Lit("Invald file type: "), Lit(ct),
                             Lit(". Only PDF files are accepted.")>>)>>
    ELSE <<>>

_validate_docx_file(ct) ==
    IF ct # DOCX_TYPE
    THEN <<FileValidationError(<<Lit("Invalid file type: "), Lit(ct),
                                 Lit(". Only DOCX files are accepted.")>>)>>
    ELSE <<>>

_validate_image_files_first(fl) ==
    IF Len(fl) = 0
    THEN <<FileValidationError(<<Lit("No files were uploaded.")>>)>>
    ELSE IF fl[1] \notin allowed_content_types
         THEN <<FileValidationError(<<Lit("Invalid file type: "), Lit(fl[1]),
                                      Lit(". Only images are accepted.")>>)>>
         ELSE <<>>

\* "if not files" and the loop over the files, which raises at the first file
\* of a type outside the allowed ones
_validate_image_files(fl) ==
    IF Len(fl) = 0
    THEN <<FileValidationError(<<Lit("No files were uploaded.")>>)>>
    ELSE LET bad == {i \in DOMAIN fl : fl[i] \notin allowed_content_types}
         IN IF bad # {}
            THEN LET i == CHOOSE j \in bad : \A k \in bad : j <= k
                 IN <<FileValidationError(<<Lit("Invalid file type: "), Lit(fl[i]),
                                            Lit(". Only images are accepted.")>>)>>
            ELSE <<>>

(* ------------------------------ state ---------------------------------- *)

VARIABLES
    fs,        \* the files and directories in settings.TEMP_FILE_DIR
    pc,        \* where each request's coroutine is suspended
    kind,      \* the endpoint of the request
    files,     \* the declared content types of its uploads
    gate,      \* whether get_api_key accepted its credential
    uid,       \* unique_id / job_id of its executor, 0 before it is drawn
    worker,    \* the pool thread of its run_in_threadpool call
    wres,      \* how that thread ended
    proc,      \* the external converter process it spawned
    rc,        \* process.returncode
    stderr,    \* the bytes communicate() captured from standard error
    result,    \* the path its executor returned
    resp,      \* the response it produced
    dropped,   \* the client went away or the request task was cancelled
    loop,      \* the request whose blocking call holds the event loop, or 0
    \* one run of _processing_task of convert_images_to_pdf, taken on its own
    images,    \* the pixel dimensions of the uploads, in upload order
    pdf_doc,   \* the pages of the document in memory
    saved,     \* pdf_doc.save(pdf_path) has returned
    \* one run of the try of _processing_task of convert_pdf_to_images, taken
    \* on its own, every page rendering
    pdf_len,   \* len(pdf_doc)
    page_num,  \* the loop variable: the pages rendered so far
    image_dir, \* the names of the files in temp_image_dir
    listing,   \* the files of temp_image_dir in the order os.walk yields them
    zipf,      \* the entry names written to the archive, in order
    zip_pc,    \* "render", "archive" or "returned"
    \* the release of one path, taken on its own
    disk,      \* the files and directories in the scratch directory
    target,    \* the path that is released
    raised     \* a release has raised

requests == <<fs, pc, kind, files, gate, uid, worker, wres,
              proc, rc, stderr, result, resp, dropped, loop>>
layout == <<images, pdf_doc, saved>>
raster == <<pdf_len, page_num, image_dir, listing, zipf, zip_pc>>
release == <<disk, target, raised>>
tasks == <<layout, raster, release>>
vars == <<requests, tasks>>

inputs == <<kind, files>>
engine == <<worker, wres, proc, rc, stderr>>

NoRequest ==
    /\ fs = {}
    /\ pc = [r \in Reqs |-> "idle"]
    /\ kind = [r \in Reqs |-> "pdf-to-word"]
    /\ files = [r \in Reqs |-> <<>>]
    /\ gate = [r \in Reqs |-> FALSE]
    /\ uid = [r \in Reqs |-> 0]
    /\ worker = [r \in Reqs |-> "idle"]
    /\ wres = [r \in Reqs |-> "none"]
    /\ proc = [r \in Reqs |-> "none"]
    /\ rc = [r \in Reqs |-> 0]
    /\ stderr = [r \in Reqs |-> EmptyBytes]
    /\ result = [r \in Reqs |-> NoPath]
    /\ resp = [r \in Reqs |-> NoResponse]
    /\ dropped = [r \in Reqs |-> FALSE]
    /\ loop = 0

NoLayout ==
    /\ images = <<>>
    /\ pdf_doc = <<>>
    /\ saved = FALSE

NoRaster ==
    /\ pdf_len = 0
    /\ page_num = 0
    /\ image_dir = {}
    /\ listing = <<>>
    /\ zipf = <<>>
    /\ zip_pc = "render"

NoRelease ==
    /\ disk = {}
    /\ target = NoPath
    /\ raised = FALSE

Init == NoRequest /\ NoLayout /\ NoRaster /\ NoRelease

Set(f, r, v) == [f EXCEPT ![r] = v]

\* an exception leaves the endpoint: the exception handlers of the app answer
Raise(r, exc) ==
    /\ resp' = Set(resp, r, ExceptionHandler(exc))
    /\ pc' = Set(pc, r, "done")

\* os.remove(p): the directory afterwards, and whether FileNotFoundError was
\* raised
os_remove(fsys, p) == [fs |-> fsys \ {p}, raised |-> p \notin fsys]

\* "if os.path.exists(p): os.remove(p)" and the same with shutil.rmtree
IfExistsRemove(fsys, p) ==
    IF p \in fsys THEN os_remove(fsys, p) ELSE [fs |-> fsys, raised |-> FALSE]

\* the directory after the guarded removal of the cleanup blocks
Release(fsys, p) == IfExistsRemove(fsys, p).fs

\* A step of a coroutine runs on the single thread of the event loop, so it
\* runs only while no blocking call holds that thread.
EventLoopStep == loop = 0 /\ loop' = loop

\* A step of a pool thread (run_in_threadpool) or of a child process
\* (asyncio.create_subprocess_exec) needs no turn on the event loop.
OffLoopStep == loop' = loop

(* ------------------------ request entry -------------------------------- *)

\* FastAPI resolves the dependencies of the route against the headers of the
\* request before it calls the endpoint: whether the endpoint is called,
\* whether the gate accepted the credential, and the response of a refusal
Dispatch(h) ==
    IF "get_api_key" \in RouteDependencies
    THEN LET g == get_api_key(h)
         IN [admitted |-> g.ok, gate |-> g.ok,
             resp |-> JSONResponse(g.status, [status |-> "", message |-> g.detail,
                                              details |-> <<>>])]
    ELSE [admitted |-> TRUE, gate |-> FALSE, resp |-> NoResponse]

\* a client posts uploads u with X-API-Key h to endpoint k
Arrive(r, k, u, h) ==
    /\ kind' = Set(kind, r, k)
    /\ files' = Set(files, r, u)
    /\ gate' = Set(gate, r, Dispatch(h).gate)

\* the request is refused before the endpoint
Refuse(r, h) ==
    /\ resp' = Set(resp, r, Dispatch(h).resp)
    /\ pc' = Set(pc, r, "done")

\* The endpoint returns FileResponse(path, background=BackgroundTask(os.remove,
\* path)).  FileResponse.__call__ stats the path: a missing file is a
\* RuntimeError (500), otherwise the status line goes out and the body follows.
Respond(r, path) ==
    /\ result' = Set(result, r, path)
    /\ IF path \in fs
       THEN /\ resp' = Set(resp, r, FileResponse)
            /\ pc' = Set(pc, r, "streaming")
       ELSE Raise(r, OtherException("RuntimeError", "File at path does not exist."))

(* ------------------- /pdf-to-word: convert_pdf_to_docx ----------------- *)

EngineError == OtherException("RuntimeError", "engine failure")
IOError     == OtherException("OSError", "I/O failure")

\* the except clause of convert_pdf_to_docx
PdfToDocxWrapped(e) ==
    ConversionError(<<Lit("An unexpected error occurred during conversion: "), Str(e)>>)

PdfToDocxFinallySkipped(fsys, id) == fsys

\* the finally clause of convert_pdf_to_docx
PdfToDocxFinally(fsys, id) == Release(fsys, Path(id, ".pdf"))

\* the request arrives; validation, the identifier and open(pdf_path, "wb"),
\* up to "await file.read()"
PdfToDocx_Begin(r) ==
    /\ pc[r] = "idle"
    /\ EventLoopStep
    /\ UNCHANGED tasks
    /\ \E u \in Uploads("pdf-to-word"), h \in Headers :
          /\ Arrive(r, "pdf-to-word", u, h)
          /\ IF ~Dispatch(h).admitted
             THEN /\ Refuse(r, h)
                  /\ UNCHANGED <<fs, uid>>
             ELSE LET v == _validate_pdf_file(u[1])
                  IN IF v # <<>>
                     THEN /\ Raise(r, v[1])
                          /\ UNCHANGED <<fs, uid>>
                     ELSE LET id == uuid4(r)
                          IN /\ uid' = Set(uid, r, id)
                             /\ \E opened \in BOOLEAN :
                                  IF opened
                                  THEN /\ fs' = fs \cup {Path(id, ".pdf")}
                                       /\ pc' = Set(pc, r, "p2d_read")
                                       /\ resp' = resp
                                  ELSE /\ fs' = PdfToDocxFinally(fs, id)
                                       /\ Raise(r, PdfToDocxWrapped(IOError))
          /\ UNCHANGED <<engine, result, dropped>>

\* the upload is read and written, the file closed, Converter(pdf_path) handed
\* to the thread pool
PdfToDocx_Write(r) ==
    /\ pc[r] = "p2d_read"
    /\ EventLoopStep
    /\ UNCHANGED tasks
    /\ \E written \in BOOLEAN :
         IF written
         THEN /\ worker' = Set(worker, r, "running")
              /\ pc' = Set(pc, r, "p2d_open")
              /\ UNCHANGED <<fs, resp>>
         ELSE /\ fs' = PdfToDocxFinally(fs, uid[r])
              /\ Raise(r, PdfToDocxWrapped(IOError))
              /\ worker' = worker
    /\ UNCHANGED <<inputs, gate, uid, wres, proc, rc, stderr, result, dropped>>

\* the pool thread runs Converter(pdf_path)
Converter_Thread(r) ==
    /\ pc[r] = "p2d_open"
    /\ OffLoopStep
    /\ UNCHANGED tasks
    /\ worker[r] = "running"
    /\ \E out \in {"ok", "raise"} : wres' = Set(wres, r, out)
    /\ worker' = Set(worker, r, "finished")
    /\ UNCHANGED <<fs, pc, inputs, gate, uid, proc, rc, stderr, result, resp, dropped>>

\* the coroutine resumes with cv, hands cv.convert(docx_path) to the pool
PdfToDocx_Opened(r) ==
    /\ pc[r] = "p2d_open"
    /\ EventLoopStep
    /\ UNCHANGED tasks
    /\ worker[r] = "finished"
    /\ IF wres[r] = "ok"
       THEN /\ worker' = Set(worker, r, "running")
            /\ wres' = Set(wres, r, "none")
            /\ pc' = Set(pc, r, "p2d_convert")
            /\ UNCHANGED <<fs, resp>>
       ELSE /\ fs' = PdfToDocxFinally(fs, uid[r])
            /\ Raise(r, PdfToDocxWrapped(EngineError))
            /\ UNCHANGED <<worker, wres>>
    /\ UNCHANGED <<inputs, gate, uid, proc, rc, stderr, result, dropped>>

\* the pool thread runs cv.convert(docx_path): the engine returns or raises,
\* and in either case it has or has not left a file at docx_path
Convert_Thread(r) ==
    /\ pc[r] = "p2d_convert"
    /\ OffLoopStep
    /\ UNCHANGED tasks
    /\ worker[r] = "running"
    /\ \E out \in {"ok", "raise"}, wrote \in BOOLEAN :
         /\ wres' = Set(wres, r, out)
         /\ fs' = IF wrote THEN fs \cup {Path(uid[r], ".docx")} ELSE fs
    /\ worker' = Set(worker, r, "finished")
    /\ UNCHANGED <<pc, inputs, gate, uid, proc, rc, stderr, result, resp, dropped>>

\* the coroutine resumes from cv.convert: an exception goes to the except and
\* finally clauses; otherwise the coroutine itself calls cv.close(), which
\* keeps the thread of the event loop until it returns
PdfToDocx_Converted(r) ==
    /\ pc[r] = "p2d_convert"
    /\ worker[r] = "finished"
    /\ loop = 0
    /\ UNCHANGED tasks
    /\ IF wres[r] = "ok"
       THEN /\ pc' = Set(pc, r, "p2d_close")
            /\ loop' = r
            /\ UNCHANGED <<fs, resp>>
       ELSE /\ fs' = PdfToDocxFinally(fs, uid[r])
            /\ Raise(r, PdfToDocxWrapped(EngineError))
            /\ loop' = loop
    /\ UNCHANGED <<inputs, gate, uid, engine, result, dropped>>

\* cv.close() returns or raises; return docx_path, the finally clause, and the
\* endpoint answers with the file
PdfToDocx_Closed(r) ==
    /\ pc[r] = "p2d_close"
    /\ loop = r
    /\ loop' = 0
    /\ UNCHANGED tasks
    /\ fs' = PdfToDocxFinally(fs, uid[r])
    /\ \E closed \in BOOLEAN :
         IF closed
         THEN Respond(r, Path(uid[r], ".docx"))
         ELSE /\ Raise(r, PdfToDocxWrapped(EngineError))
              /\ result' = result
    /\ UNCHANGED <<inputs, gate, uid, engine, dropped>>

(* ------------------- /word-to-pdf: convert_docx_to_pdf ----------------- *)

\* the except clause of convert_docx_to_pdf: it catches every Exception, the
\* ConversionError raised inside the try included
DocxToPdfWrapped(e) ==
    ConversionError(<<Lit("An unexpected error occurred: "), Repr(e)>>)

\* the finally clause of convert_docx_to_pdf
DocxToPdfFinally(fsys, id) == Release(fsys, Path(id, ".docx"))

\* "stderr.decode('utf-8') if stderr else ...", raised as the ConversionError
\* of a non-zero exit code
LibreOfficeFailed(err) ==
    IF err # EmptyBytes
    THEN IF Utf8Valid(err)
         THEN <<ConversionError(<<Lit("LibreOffice conversion failed: "),
                                  Utf8Decode(err)>>)>>
         ELSE <<OtherException("UnicodeDecodeError", "invalid start byte")>>
    ELSE <<ConversionError(<<Lit("LibreOffice conversion failed: "),
                             Lit("Unknown LibreOffice error.")>>)>>

DocxToPdfCheckedExitOnly(code, err, fsys, docx_path) ==
    IF code # 0 THEN LibreOfficeFailed(err) ELSE <<>>

\* the statements after "await process.communicate()" inside the try: the
\* exception they raise, or <<>> when they reach "return pdf_path"
DocxToPdfChecked(code, err, fsys, docx_path) ==
    IF code # 0
    THEN LibreOfficeFailed(err)
    ELSE IF ReplaceExt(docx_path, ".pdf") \notin fsys
         THEN <<ConversionError(
                  <<Lit("PDF file was not created after conversion process.")>>)>>
         ELSE <<>>

DocxToPdf_BeginLate(r) ==
    /\ pc[r] = "idle"
    /\ EventLoopStep
    /\ UNCHANGED tasks
    /\ \E u \in Uploads("word-to-pdf"), h \in Headers :
          /\ Arrive(r, "word-to-pdf", u, h)
          /\ IF ~Dispatch(h).admitted
             THEN /\ Refuse(r, h)
                  /\ UNCHANGED <<fs, uid>>
             ELSE LET id == uuid4(r)
                      v == _validate_docx_file(u[1])
                  IN /\ uid' = Set(uid, r, id)
                     /\ \E opened \in BOOLEAN :
                          IF opened
                          THEN /\ fs' = fs \cup {Path(id, ".docx")}
                               /\ IF v # <<>>
                                  THEN Raise(r, v[1])
                                  ELSE /\ pc' = Set(pc, r, "d2p_read")
                                       /\ resp' = resp
                          ELSE /\ fs' = DocxToPdfFinally(fs, id)
                               /\ Raise(r, DocxToPdfWrapped(IOError))
          /\ UNCHANGED <<engine, result, dropped>>

\* the request arrives; validation, the identifier and open(docx_path, "wb"),
\* up to "await file.read()"
DocxToPdf_Begin(r) ==
    /\ pc[r] = "idle"
    /\ EventLoopStep
    /\ UNCHANGED tasks
    /\ \E u \in Uploads("word-to-pdf"), h \in Headers :
          /\ Arrive(r, "word-to-pdf", u, h)
          /\ IF ~Dispatch(h).admitted
             THEN /\ Refuse(r, h)
                  /\ UNCHANGED <<fs, uid>>
             ELSE LET v == _validate_docx_file(u[1])
                  IN IF v # <<>>
                     THEN /\ Raise(r, v[1])
                          /\ UNCHANGED <<fs, uid>>
                     ELSE LET id == uuid4(r)
                          IN /\ uid' = Set(uid, r, id)
                             /\ \E opened \in BOOLEAN :
                                  IF opened
                                  THEN /\ fs' = fs \cup {Path(id, ".docx")}
                                       /\ pc' = Set(pc, r, "d2p_read")
                                       /\ resp' = resp
                                  ELSE /\ fs' = DocxToPdfFinally(fs, id)
                                       /\ Raise(r, DocxToPdfWrapped(IOError))
          /\ UNCHANGED <<engine, result, dropped>>

\* the upload is read and handed to buffer.write; with the file still open,
\* the coroutine awaits asyncio.create_subprocess_exec
DocxToPdf_Write(r) ==
    /\ pc[r] = "d2p_read"
    /\ EventLoopStep
    /\ UNCHANGED tasks
    /\ \E written \in BOOLEAN :
         IF written
         THEN /\ pc' = Set(pc, r, "d2p_spawn")
              /\ UNCHANGED <<fs, resp>>
         ELSE /\ fs' = DocxToPdfFinally(fs, uid[r])
              /\ Raise(r, DocxToPdfWrapped(IOError))
    /\ UNCHANGED <<inputs, gate, uid, engine, result, dropped>>

\* create_subprocess_exec starts the converter or fails; then the coroutine
\* awaits process.communicate()
DocxToPdf_Spawn(r) ==
    /\ pc[r] = "d2p_spawn"
    /\ EventLoopStep
    /\ UNCHANGED tasks
    /\ \E spawned \in BOOLEAN :
         IF spawned
         THEN /\ proc' = Set(proc, r, "running")
              /\ pc' = Set(pc, r, "d2p_wait")
              /\ UNCHANGED <<fs, resp>>
         ELSE /\ fs' = DocxToPdfFinally(fs, uid[r])
              /\ Raise(r, DocxToPdfWrapped(IOError))
              /\ proc' = proc
    /\ UNCHANGED <<inputs, gate, uid, worker, wres, rc, stderr, result, dropped>>

\* The external converter ends: any exit code, any standard error, and it has
\* or has not written <stem>.pdf into the output directory.  Nothing stops it
\* when the coroutine that spawned it has gone; communicate() then hands its
\* exit code and standard error to nobody.
Soffice_Exit(r) ==
    /\ proc[r] = "running"
    /\ OffLoopStep
    /\ UNCHANGED tasks
    /\ \E code \in {0, 1}, err \in StderrValues, wrote \in BOOLEAN :
         /\ IF pc[r] = "d2p_wait"
            THEN /\ rc' = Set(rc, r, code)
                 /\ stderr' = Set(stderr, r, err)
            ELSE UNCHANGED <<rc, stderr>>
         /\ fs' = IF wrote THEN fs \cup {ReplaceExt(Path(uid[r], ".docx"), ".pdf")} ELSE fs
    /\ proc' = Set(proc, r, "exited")
    /\ UNCHANGED <<pc, inputs, gate, uid, worker, wres, result, resp, dropped>>

\* communicate() returns: exit code check, output check, return or raise, the
\* except and finally clauses, and the endpoint answers with the file
DocxToPdf_Communicated(r) ==
    /\ pc[r] = "d2p_wait"
    /\ EventLoopStep
    /\ UNCHANGED tasks
    /\ proc[r] = "exited"
    /\ LET docx_path == Path(uid[r], ".docx")
           e == DocxToPdfChecked(rc[r], stderr[r], fs, docx_path)
       IN /\ fs' = DocxToPdfFinally(fs, uid[r])
          /\ IF e = <<>>
             THEN Respond(r, ReplaceExt(docx_path, ".pdf"))
             ELSE /\ Raise(r, DocxToPdfWrapped(e[1]))
                  /\ result' = result
    /\ UNCHANGED <<inputs, gate, uid, engine, dropped>>

(* ----------------- /images-to-pdf: convert_images_to_pdf --------------- *)

ImagesToPdfWrapped(e) ==
    ConversionError(<<Lit("An unexpected error occurred during image to PDF conversion: "),
                      Repr(e)>>)

\* the request arrives; validation, then _processing_task goes to the pool
ImagesToPdf_Begin(r) ==
    /\ pc[r] = "idle"
    /\ EventLoopStep
    /\ UNCHANGED tasks
    /\ \E u \in Uploads("images-to-pdf"), h \in Headers :
          /\ Arrive(r, "images-to-pdf", u, h)
          /\ IF ~Dispatch(h).admitted
             THEN /\ Refuse(r, h)
                  /\ worker' = worker
             ELSE LET v == _validate_image_files(u)
                  IN IF v # <<>>
                     THEN /\ Raise(r, v[1])
                          /\ worker' = worker
                     ELSE /\ worker' = Set(worker, r, "running")
                          /\ pc' = Set(pc, r, "i2p_wait")
                          /\ resp' = resp
          /\ UNCHANGED <<fs, uid, wres, proc, rc, stderr, result, dropped>>

\* _processing_task in the pool thread: a page per image, which may raise on
\* any image; then the identifier and pdf_doc.save(pdf_path), which leaves a
\* file when it returns and may leave one when it raises
ImagesTask_Thread(r) ==
    /\ pc[r] = "i2p_wait"
    /\ OffLoopStep
    /\ UNCHANGED tasks
    /\ worker[r] = "running"
    /\ \/ /\ wres' = Set(wres, r, "raise")
          /\ UNCHANGED <<fs, uid>>
       \/ LET id == uuid4(r)
          IN /\ uid' = Set(uid, r, id)
             /\ \E out \in {"ok", "raise"}, wrote \in BOOLEAN :
                  /\ out = "ok" => wrote
                  /\ wres' = Set(wres, r, out)
                  /\ fs' = IF wrote THEN fs \cup {Path(id, ".pdf")} ELSE fs
    /\ worker' = Set(worker, r, "finished")
    /\ UNCHANGED <<pc, inputs, gate, proc, rc, stderr, result, resp, dropped>>

\* the coroutine resumes: the path and the endpoint's answer, or the except
ImagesToPdf_Resumed(r) ==
    /\ pc[r] = "i2p_wait"
    /\ EventLoopStep
    /\ UNCHANGED tasks
    /\ worker[r] = "finished"
    /\ IF wres[r] = "ok"
       THEN Respond(r, Path(uid[r], ".pdf"))
       ELSE /\ Raise(r, ImagesToPdfWrapped(EngineError))
            /\ result' = result
    /\ UNCHANGED <<fs, inputs, gate, uid, engine, dropped>>

(* ----------------- /pdf-to-images: convert_pdf_to_images --------------- *)

PdfToImagesWrapped(e) ==
    ConversionError(<<Lit("An unexpected error occurred during PDF to image conversion: "),
                      Repr(e)>>)

PdfToImagesFinallySkipped(fsys, id) == fsys

\* the finally clause of _processing_task: shutil.rmtree(temp_image_dir)
PdfToImagesFinally(fsys, id) == Release(fsys, Path(id, ""))

\* the request arrives; validation, up to "await file.read()"
PdfToImages_Begin(r) ==
    /\ pc[r] = "idle"
    /\ EventLoopStep
    /\ UNCHANGED tasks
    /\ \E u \in Uploads("pdf-to-images"), h \in Headers :
          /\ Arrive(r, "pdf-to-images", u, h)
          /\ IF ~Dispatch(h).admitted
             THEN Refuse(r, h)
             ELSE LET v == _validate_pdf_file(u[1])
                  IN IF v # <<>>
                     THEN Raise(r, v[1])
                     ELSE /\ pc' = Set(pc, r, "pi_read")
                          /\ resp' = resp
          /\ UNCHANGED <<fs, uid, engine, result, dropped>>

\* the upload is read into memory, outside any try; then _processing_task goes
\* to the thread pool
PdfToImages_Read(r) ==
    /\ pc[r] = "pi_read"
    /\ EventLoopStep
    /\ UNCHANGED tasks
    /\ \E read \in BOOLEAN :
         IF read
         THEN /\ worker' = Set(worker, r, "running")
              /\ pc' = Set(pc, r, "pi_wait")
              /\ resp' = resp
         ELSE /\ Raise(r, IOError)
              /\ worker' = worker
    /\ UNCHANGED <<fs, inputs, gate, uid, wres, proc, rc, stderr, result, dropped>>

\* _processing_task in the pool thread, before its try: the identifier and
\* os.makedirs(temp_image_dir), whose exception leaves the thread unwrapped
PdfImagesTask_Mkdir(r) ==
    /\ pc[r] = "pi_wait"
    /\ OffLoopStep
    /\ UNCHANGED tasks
    /\ worker[r] = "running"
    /\ uid[r] = 0
    /\ LET id == uuid4(r)
       IN /\ uid' = Set(uid, r, id)
          /\ \E made \in BOOLEAN :
               IF made
               THEN /\ fs' = fs \cup {Path(id, "")}
                    /\ UNCHANGED <<worker, wres>>
               ELSE /\ fs' = fs
                    /\ worker' = Set(worker, r, "finished")
                    /\ wres' = Set(wres, r, "raise_raw")
    /\ UNCHANGED <<pc, inputs, gate, proc, rc, stderr, result, resp, dropped>>

\* the try of _processing_task: fitz.open, a PNG per page, the ZipFile; it
\* raises at any of the three or returns zip_path.  ZipFile(zip_path, 'w')
\* creates the archive before anything is added to it.  Then the finally.
PdfImagesTask_Run(r) ==
    /\ pc[r] = "pi_wait"
    /\ OffLoopStep
    /\ UNCHANGED tasks
    /\ worker[r] = "running"
    /\ uid[r] # 0
    /\ \E step \in {"open", "render", "archive", "return"}, created \in BOOLEAN :
         /\ step \in {"open", "render"} => ~created
         /\ step = "return" => created
         /\ wres' = Set(wres, r, IF step = "return" THEN "ok" ELSE "raise")
         /\ fs' = PdfToImagesFinally(
                    IF created THEN fs \cup {Path(uid[r], ".zip")} ELSE fs, uid[r])
    /\ worker' = Set(worker, r, "finished")
    /\ UNCHANGED <<pc, inputs, gate, uid, proc, rc, stderr, result, resp, dropped>>

\* the coroutine resumes: the path and the endpoint's answer, or the exception
\* of the thread as it is
PdfToImages_Resumed(r) ==
    /\ pc[r] = "pi_wait"
    /\ EventLoopStep
    /\ UNCHANGED tasks
    /\ worker[r] = "finished"
    /\ IF wres[r] = "ok"
       THEN Respond(r, Path(uid[r], ".zip"))
       ELSE /\ Raise(r, IF wres[r] = "raise_raw" THEN IOError
                        ELSE PdfToImagesWrapped(EngineError))
            /\ result' = result
    /\ UNCHANGED <<fs, inputs, gate, uid, engine, dropped>>

(* -------------------- the response and its background ------------------ *)

BackgroundTaskNone(fsys, p) == fsys

\* BackgroundTask(os.remove, path), run by the response after its body
BackgroundTask(fsys, p) == os_remove(fsys, p).fs

\* the last chunk of the body has been sent; then the background task runs
Stream_Complete(r) ==
    /\ pc[r] = "streaming"
    /\ EventLoopStep
    /\ UNCHANGED tasks
    /\ fs' = BackgroundTask(fs, result[r])
    /\ pc' = Set(pc, r, "done")
    /\ UNCHANGED <<inputs, gate, uid, engine, result, resp, dropped>>

(* --------------------------- the input file --------------------------- *)

\* The coroutine of r is inside the "with open(<input>, 'wb') as buffer" block
\* of its executor: the input artifact is open for writing, and what
\* buffer.write left in the buffer of the file object is not yet in the file.
\* convert_pdf_to_docx leaves the block after the write; convert_docx_to_pdf
\* leaves it only when its try ends.
InputOpen(r) ==
    \/ kind[r] = "pdf-to-word" /\ pc[r] = "p2d_read"
    \/ kind[r] = "word-to-pdf" /\ pc[r] \in {"d2p_read", "d2p_spawn", "d2p_wait"}

(* ------------------------- the client goes away ------------------------ *)

AwaitP2D == {"p2d_read", "p2d_open", "p2d_convert"}
AwaitD2P == {"d2p_read", "d2p_spawn", "d2p_wait"}
AwaitOther == {"i2p_wait", "pi_read", "pi_wait", "streaming"}

\* The client closes the connection and the server cancels the request task at
\* the await it is suspended in, or fails the send of the next chunk of the
\* body.  CancelledError is no Exception, so only the finally clauses run and
\* nothing after the await does, the background task of the response included.
\* An await on run_in_threadpool is left only when the thread has finished;
\* the external process is not waited for.
Cancel(r) ==
    /\ pc[r] \in AwaitP2D \cup AwaitD2P \cup AwaitOther
    /\ EventLoopStep
    /\ UNCHANGED tasks
    /\ worker[r] # "running"
    /\ fs' = IF pc[r] \in AwaitP2D THEN PdfToDocxFinally(fs, uid[r])
             ELSE IF pc[r] \in AwaitD2P THEN DocxToPdfFinally(fs, uid[r])
             ELSE fs
    /\ pc' = Set(pc, r, "done")
    /\ dropped' = Set(dropped, r, TRUE)
    /\ UNCHANGED <<inputs, gate, uid, engine, result, resp>>

(* --------------------------- specification ----------------------------- *)

Next ==
    \E r \in Reqs :
        \/ PdfToDocx_Begin(r)
        \/ PdfToDocx_Write(r)
        \/ Converter_Thread(r)
        \/ PdfToDocx_Opened(r)
        \/ Convert_Thread(r)
        \/ PdfToDocx_Converted(r)
        \/ PdfToDocx_Closed(r)
        \/ DocxToPdf_Begin(r)
        \/ DocxToPdf_Write(r)
        \/ DocxToPdf_Spawn(r)
        \/ Soffice_Exit(r)
        \/ DocxToPdf_Communicated(r)
        \/ ImagesToPdf_Begin(r)
        \/ ImagesTask_Thread(r)
        \/ ImagesToPdf_Resumed(r)
        \/ PdfToImages_Begin(r)
        \/ PdfToImages_Read(r)
        \/ PdfImagesTask_Mkdir(r)
        \/ PdfImagesTask_Run(r)
        \/ PdfToImages_Resumed(r)
        \/ Stream_Complete(r)
        \/ Cancel(r)

Spec == Init /\ [][Next]_vars

(* ------------- _processing_task of convert_images_to_pdf --------------- *)

\* one turn of "for file_upload in files": the image is read and measured, a
\* page is appended and the image placed on it
ImagesTask_Page ==
    /\ ~saved
    /\ Len(pdf_doc) < Len(images)
    /\ LET i == Len(pdf_doc) + 1
       IN pdf_doc' = Append(pdf_doc, new_page(i, images[i]))
    /\ UNCHANGED <<images, saved, requests, raster, release>>

\* the loop is over: pdf_doc.save(pdf_path), pdf_doc.close(), return
ImagesTask_Save ==
    /\ ~saved
    /\ Len(pdf_doc) = Len(images)
    /\ saved' = TRUE
    /\ UNCHANGED <<images, pdf_doc, requests, raster, release>>

InitImages ==
    /\ NoRequest
    /\ NoRaster
    /\ NoRelease
    /\ images \in ImageLists
    /\ pdf_doc = <<>>
    /\ saved = FALSE

NextImages == ImagesTask_Page \/ ImagesTask_Save

SpecImages == InitImages /\ [][NextImages]_vars

(* ------------- _processing_task of convert_pdf_to_images --------------- *)

\* one turn of "for page_num in range(len(pdf_doc))": the page is rendered
\* and saved as page_<page_num + 1>.png in temp_image_dir
PdfImagesTask_Render ==
    /\ zip_pc = "render"
    /\ page_num < pdf_len
    /\ image_dir' = image_dir \cup {page_png(page_num)}
    /\ page_num' = page_num + 1
    /\ UNCHANGED <<pdf_len, listing, zipf, zip_pc, requests, layout, release>>

\* the loop is over: pdf_doc.close(), ZipFile(zip_path, 'w'), and os.walk
\* lists temp_image_dir in an order of its own
PdfImagesTask_Walk ==
    /\ zip_pc = "render"
    /\ page_num = pdf_len
    /\ listing' \in Listings(image_dir)
    /\ zip_pc' = "archive"
    /\ UNCHANGED <<pdf_len, page_num, image_dir, zipf, requests, layout, release>>

\* one turn of "for file in files": zipf.write(..., arcname=file)
PdfImagesTask_ZipWrite ==
    /\ zip_pc = "archive"
    /\ Len(zipf) < Len(listing)
    /\ zipf' = Append(zipf, arcname(JobDir, listing[Len(zipf) + 1]))
    /\ UNCHANGED <<pdf_len, page_num, image_dir, listing, zip_pc, requests, layout, release>>

\* the archive is closed and zip_path returned
PdfImagesTask_Return ==
    /\ zip_pc = "archive"
    /\ Len(zipf) = Len(listing)
    /\ zip_pc' = "returned"
    /\ UNCHANGED <<pdf_len, page_num, image_dir, listing, zipf, requests, layout, release>>

InitRaster ==
    /\ NoRequest
    /\ NoLayout
    /\ NoRelease
    /\ pdf_len \in 0..MaxPages
    /\ page_num = 0
    /\ image_dir = {}
    /\ listing = <<>>
    /\ zipf = <<>>
    /\ zip_pc = "render"

NextRaster ==
    \/ PdfImagesTask_Render
    \/ PdfImagesTask_Walk
    \/ PdfImagesTask_ZipWrite
    \/ PdfImagesTask_Return

SpecRaster == InitRaster /\ [][NextRaster]_vars

(* ---------------------------- release sites ---------------------------- *)

\* the paths of the scratch directory
ScratchPaths == UNION {PathsOfId(uuid4(r)) : r \in Reqs}

IsDir(p) == p[2] = ""

\* the finally clause of convert_pdf_to_docx and of convert_docx_to_pdf runs
\* on the input artifact
Finally_Remove ==
    /\ ~IsDir(target)
    /\ disk' = IfExistsRemove(disk, target).fs
    /\ raised' = (raised \/ IfExistsRemove(disk, target).raised)
    /\ UNCHANGED <<target, requests, layout, raster>>

\* the finally clause of _processing_task runs on the image directory
Finally_Rmtree ==
    /\ IsDir(target)
    /\ disk' = IfExistsRemove(disk, target).fs
    /\ raised' = (raised \/ IfExistsRemove(disk, target).raised)
    /\ UNCHANGED <<target, requests, layout, raster>>

\* BackgroundTask(os.remove, path) of an endpoint runs on the result artifact
Background_Remove ==
    /\ ~IsDir(target)
    /\ disk' = os_remove(disk, target).fs
    /\ raised' = (raised \/ os_remove(disk, target).raised)
    /\ UNCHANGED <<target, requests, layout, raster>>

InitRelease ==
    /\ NoRequest
    /\ NoLayout
    /\ NoRaster
    /\ disk \in SUBSET ScratchPaths
    /\ target \in ScratchPaths
    /\ raised = FALSE

NextRelease == Finally_Remove \/ Finally_Rmtree \/ Background_Remove

SpecRelease == InitRelease /\ [][NextRelease]_vars

(* ------------------------------ claims --------------------------------- *)

\* an engine of request r has been invoked: a pool thread or the converter
EngineInvoked(r) == worker[r] # "idle" \/ proc[r] # "none"

\* the request has ended and its client saw it end
Answered(r) == pc[r] = "done" /\ ~dropped[r]

\* the content types an endpoint accepts
Expected(k) ==
    CASE k = "pdf-to-word" -> {PDF_TYPE}
      [] k = "word-to-pdf" -> {DOCX_TYPE}
      [] k = "images-to-pdf" -> allowed_content_types
      [] k = "pdf-to-images" -> {PDF_TYPE}

WrongType(r) ==
    /\ pc[r] # "idle"
    /\ \E i \in DOMAIN files[r] : files[r][i] \notin Expected(kind[r])

\* the artifacts of request r by role
InputPath(r) ==
    IF kind[r] = "pdf-to-word" THEN Path(uid[r], ".pdf") ELSE Path(uid[r], ".docx")

OutputPath(r) ==
    CASE kind[r] = "pdf-to-word" -> Path(uid[r], ".docx")
      [] kind[r] = "word-to-pdf" -> Path(uid[r], ".pdf")
      [] kind[r] = "images-to-pdf" -> Path(uid[r], ".pdf")
      [] kind[r] = "pdf-to-images" -> Path(uid[r], ".zip")

\* text t occurs in the text d: inside one of its pieces
Contains(d, t) ==
    \E i \in DOMAIN d :
       \E j \in 1..(Len(d[i]) - Len(t) + 1) : SubSeq(d[i], j, j + Len(t) - 1) = t

\* C1: once a request has been answered (the file sent, or an error response),
\* and nothing it started still runs, no path of its identifier is left in
\* the scratch directory.
C1_NoArtifactAfterRequest ==
    \A r \in Reqs :
       (Answered(r) /\ worker[r] # "running" /\ proc[r] # "running")
          => PathsOfId(uid[r]) \cap fs = {}

\* C2: a request whose upload has a content type that is wrong for its
\* endpoint ends with status 400 and no engine has been invoked for it.
C2_WrongTypeIs400 ==
    \A r \in Reqs :
       (Answered(r) /\ WrongType(r)) => (resp[r].status_code = 400 /\ ~EngineInvoked(r))

\* C3: an executor has allocated an identifier or invoked an engine for a
\* request only if the access gate accepted the credential of that request.
C3_GateBeforeExecutor ==
    \A r \in Reqs : (uid[r] # 0 \/ EngineInvoked(r)) => gate[r]

\* C4: when the converter of a /word-to-pdf request exited with a non-zero
\* code, the request ends with status 422 and details that contain the
\* decoded standard error, or the placeholder when standard error is empty.
C4_StderrInDetails ==
    \A r \in Reqs :
       (kind[r] = "word-to-pdf" /\ Answered(r) /\ proc[r] = "exited" /\ rc[r] # 0)
          => /\ resp[r].status_code = 422
             /\ Contains(resp[r].content.details,
                         IF stderr[r] = EmptyBytes THEN Lit("Unknown LibreOffice error.")
                         ELSE Utf8Decode(stderr[r]))

\* the converter of r has exited with code zero and <stem>.pdf is not there,
\* and the coroutine of r is about to resume from communicate()
ZeroExitNoOutput(r) ==
    /\ kind[r] = "word-to-pdf"
    /\ pc[r] = "d2p_wait"
    /\ proc[r] = "exited"
    /\ rc[r] = 0
    /\ ReplaceExt(Path(uid[r], ".docx"), ".pdf") \notin fs

\* C5: when the converter exited with code zero and the expected output path
\* does not exist, the step that resumes the executor returns no path and the
\* request ends with status 422 (or with no response, its task cancelled).
C5_MissingOutputFails ==
    [][\A r \in Reqs :
          (ZeroExitNoOutput(r) /\ pc'[r] # pc[r])
             => /\ result'[r] = NoPath
                /\ pc'[r] = "done"
                /\ (dropped'[r] \/ resp'[r].status_code = 422)]_vars

C5_Witness ==
    \E r \in Reqs :
       /\ kind[r] = "word-to-pdf"
       /\ Answered(r)
       /\ proc[r] = "exited"
       /\ rc[r] = 0
       /\ result[r] = NoPath
       /\ resp[r].status_code = 422

\* C6: once the pool thread of a /pdf-to-images request has ended, by return
\* or by exception, the per-job image directory does not exist.
C6_ImageDirRemoved ==
    \A r \in Reqs :
       (kind[r] = "pdf-to-images" /\ worker[r] = "finished") => Path(uid[r], "") \notin fs

\* the thread made the directory and then failed inside its try
C6_Witness ==
    \E r \in Reqs :
       kind[r] = "pdf-to-images" /\ worker[r] = "finished" /\ wres[r] = "raise"

\* C7: when the executor of a /pdf-to-word or /word-to-pdf request has
\* returned or raised, its input artifact does not exist, and the path it
\* returned is not the input artifact.
C7_InputReleased ==
    \A r \in Reqs :
       (kind[r] \in {"pdf-to-word", "word-to-pdf"} /\ pc[r] \in {"streaming", "done"})
          => (InputPath(r) \notin fs /\ result[r] # InputPath(r))

\* one request streams its DOCX result, another failed on a non-zero exit
C7_Witness ==
    \E r, q \in Reqs :
       /\ kind[r] = "pdf-to-word" /\ pc[r] = "streaming" /\ result[r] \in fs
       /\ kind[q] = "word-to-pdf" /\ Answered(q) /\ proc[q] = "exited" /\ rc[q] # 0

\* C8: while the response body is streamed the result artifact exists, and
\* after a response that was sent to its end it does not.
C8_ResultLivesUntilSent ==
    \A r \in Reqs :
       /\ pc[r] = "streaming" => result[r] \in fs
       /\ (Answered(r) /\ resp[r].status_code = 200) => result[r] \notin fs

C8_Witness ==
    \E r \in Reqs :
       Answered(r) /\ resp[r].status_code = 200 /\ result[r] = OutputPath(r)

\* C9: when the client of a /word-to-pdf request has gone, the request task
\* has ended and the converter it started has run to its end, the output
\* artifact is not in the scratch directory.
C9_DroppedOutputRemoved ==
    \A r \in Reqs :
       (kind[r] = "word-to-pdf" /\ pc[r] = "done" /\ dropped[r] /\ proc[r] = "exited")
          => OutputPath(r) \notin fs

\* request r took the step
Stepped(r) ==
    \/ pc'[r] # pc[r]
    \/ worker'[r] # worker[r]
    \/ proc'[r] # proc[r]
    \/ uid'[r] # uid[r]

\* C10: every path a step creates or deletes is a path of the identifier of
\* the request that took the step, and of no other request's identifier.
C10_JobIsolation ==
    [][\A p \in (fs' \ fs) \cup (fs \ fs') :
          \E r \in Reqs :
             /\ Stepped(r)
             /\ p \in PathsOfId(uid'[r])
             /\ \A q \in Reqs \ {r} : p \notin PathsOfId(uid'[q])]_vars

\* two jobs of different kinds in flight, each with an artifact on disk
C10_Witness ==
    \E r, q \in Reqs :
       /\ r # q
       /\ pc[r] = "p2d_convert" /\ Path(uid[r], ".pdf") \in fs
       /\ pc[q] = "d2p_wait" /\ Path(uid[q], ".docx") \in fs


\* an engine invocation of request r is in progress: a pool thread, the
\* external converter, or the cv.close() its coroutine is inside
EngineRunning(r) ==
    worker[r] = "running" \/ proc[r] = "running" \/ pc[r] = "p2d_close"

\* C11: every engine invocation of every executor (engine open and close
\* included) runs off the task that handles requests, so while one is in
\* progress the event loop is free to accept and advance another request.
C11_EngineOffEventLoop ==
    \A r \in Reqs : EngineRunning(r) => loop = 0


\* C12: the access gate classifies every request that arrives: it accepts the
\* credential and the request goes on to file-type validation, or the request
\* is rejected at once with status 403 (missing header or value outside the
\* credential set).
C12_GateClassifies ==
    [][\A r \in Reqs :
         (pc[r] = "idle" /\ pc'[r] # "idle") =>
            \/ gate'[r]
            \/ pc'[r] = "done" /\ resp'[r].status_code = 403]_vars


\* request r was answered by the top-level handler of unclassified exceptions
Unhandled(r) == Answered(r) /\ resp[r].status_code = 500

\* the exception that left the endpoint of r came raw out of the executor
\* (an OSError of "await file.read()" or os.makedirs), not out of FileResponse
RawFromExecutor(r) == Unhandled(r) /\ result[r] = NoPath

\* C13: any two requests answered by the top-level handler carry the same
\* body, with status "error" and nothing of the exception in it, whatever the
\* types and messages of the two exceptions were.
C13_GenericBody ==
    \A r, q \in Reqs :
       (Unhandled(r) /\ Unhandled(q)) =>
          /\ resp[r].content = resp[q].content
          /\ resp[r].content.status = "error"
          /\ ~Contains(resp[r].content.details, Lit("RuntimeError"))
          /\ ~Contains(resp[r].content.details, Lit("OSError"))

\* two requests ended in 500, one on an OSError out of the executor and one on
\* the RuntimeError of FileResponse for a missing file
C13_Witness ==
    \E r, q \in Reqs :
       /\ RawFromExecutor(r)
       /\ Unhandled(q) /\ result[q] # NoPath


\* the placed rectangle of page p for an image of w x h pixels: same aspect
\* ratio, inside the page, against the page bounds on one axis at least, and
\* with equal margins left and right, top and bottom
FitsCentred(p, w, h) ==
    LET r == p.rect
        W == Num(p.width)
        H == Num(p.height)
    IN /\ RatMul(RatSub(r.x1, r.x0), Num(h)) = RatMul(RatSub(r.y1, r.y0), Num(w))
       /\ RatLE(Num(0), r.x0) /\ RatLE(r.x1, W)
       /\ RatLE(Num(0), r.y0) /\ RatLE(r.y1, H)
       /\ RatLE(r.x0, r.x1) /\ RatLE(r.y0, r.y1) /\ r.x0 # r.x1 /\ r.y0 # r.y1
       /\ \/ r.x0 = Num(0) /\ r.x1 = W
          \/ r.y0 = Num(0) /\ r.y1 = H
       /\ r.x0 = RatSub(W, r.x1)
       /\ r.y0 = RatSub(H, r.y1)

\* C14: the document saved for N >= 1 images has exactly N pages; page i is an
\* A4 page that shows upload i, in a rectangle with the aspect ratio of that
\* image, inside the page, touching the page bounds on at least one axis and
\* with equal margins on opposite sides.
C14_PagesFitCentred ==
    /\ \A i \in DOMAIN pdf_doc :
          /\ i \in DOMAIN images
          /\ pdf_doc[i].stream = i
          /\ pdf_doc[i].width = A4_WIDTH /\ pdf_doc[i].height = A4_HEIGHT
          /\ FitsCentred(pdf_doc[i], images[i][1], images[i][2])
    /\ saved => Len(pdf_doc) = Len(images)

\* a saved document of two pages: a landscape image larger than the page,
\* scaled down to the page width, and a small upright one, scaled up to the
\* page height
C14_Witness ==
    /\ saved
    /\ Len(images) = 2
    /\ images[1] = <<A4_HEIGHT, A4_WIDTH>>
    /\ images[2] = <<1, MaxDim>>
    /\ pdf_doc[1].rect.x0 = Num(0) /\ pdf_doc[1].rect.y0 # Num(0)
    /\ pdf_doc[2].rect.y0 = Num(0) /\ pdf_doc[2].rect.x0 # Num(0)


\* C15: the archive returned for an M-page PDF, every page of which rendered,
\* has exactly M entries: the flat names page_1.png .. page_M.png, each once,
\* and nothing else.
C15_ArchiveEntries ==
    zip_pc = "returned" =>
       /\ Len(zipf) = pdf_len
       /\ {zipf[i] : i \in DOMAIN zipf} =
             {[dir |-> Flat, file |-> [stem |-> "page_", number |-> k, ext |-> ".png"]] :
                 k \in 1..pdf_len}

\* an archive returned for a PDF of several pages that os.walk did not list
\* in page order
C15_Witness ==
    /\ zip_pc = "returned"
    /\ pdf_len >= 2
    /\ zipf[1].file.number = pdf_len


\* C16: in a /pdf-to-word or /word-to-pdf job the steps follow one another:
\* while the engine or the converter runs, the input artifact is written to
\* its end and closed, and still exists; a path is returned only when the
\* engine or the converter has ended.
C16_StepsInOrder ==
    \A r \in Reqs :
       kind[r] \in {"pdf-to-word", "word-to-pdf"} =>
          /\ (worker[r] = "running" \/ proc[r] = "running") =>
                (~InputOpen(r) /\ InputPath(r) \in fs)
          /\ result[r] # NoPath => (worker[r] # "running" /\ proc[r] # "running")


\* the uploads of request r are what file-type validation lets through
PassedValidation(r) ==
    /\ pc[r] # "idle"
    /\ ~WrongType(r)
    /\ kind[r] = "images-to-pdf" => files[r] # <<>>

\* C17: a request that passed validation and whose executor did not return a
\* path (its pipeline raised: artifact write, directory creation, engine,
\* subprocess, save or archiving) is answered with status 422 and a body
\* {status: "error", message, details}, never with 500.
C17_PipelineErrorIs422 ==
    \A r \in Reqs :
       (Answered(r) /\ PassedValidation(r) /\ result[r] = NoPath) =>
          /\ resp[r].status_code = 422
          /\ resp[r].content.status = "error"


\* C18: an /images-to-pdf request with no file, or with a file of a type
\* outside the allowed image types at any position, is answered with 400
\* before any image is read: no pool thread was started for it, no identifier
\* drawn and no output artifact created.
C18_ImagesValidatedFirst ==
    \A r \in Reqs :
       (/\ kind[r] = "images-to-pdf"
        /\ pc[r] # "idle"
        /\ \/ files[r] = <<>>
           \/ \E i \in DOMAIN files[r] : files[r][i] \notin allowed_content_types)
       => /\ Answered(r)
          /\ resp[r].status_code = 400
          /\ worker[r] = "idle" /\ uid[r] = 0 /\ result[r] = NoPath
          /\ PathsOfId(uuid4(r)) \cap fs = {}

\* a request whose last file, after valid images, is no image was rejected
\* while the artifact of another request is in the scratch directory
C18_Witness ==
    \E r, q \in Reqs :
       /\ kind[r] = "images-to-pdf" /\ Answered(r)
       /\ Len(files[r]) = MaxFiles
       /\ \A i \in 1..(MaxFiles - 1) : files[r][i] = PNG_TYPE
       /\ files[r][MaxFiles] = TEXT_TYPE
       /\ resp[r].status_code = 400
       /\ q # r /\ fs \cap PathsOfId(uuid4(q)) # {}


\* C19: at every release site a release of a path that is absent changes
\* nothing and raises nothing, so that a second release of a path leaves what
\* the first one left.
C19_ReleaseIdempotent ==
    [][target \notin disk => (disk' = disk /\ raised' = raised)]_vars


\* C20: the step in which a request is rejected by file-type validation ends
\* the request and leaves the scratch directory as it was: no identifier has
\* been drawn for the request, no file or directory created, no engine
\* started.
C20_RejectionLeavesScratch ==
    [][\A r \in Reqs :
         (/\ pc[r] = "idle" /\ pc'[r] # "idle"
          /\ \/ \E i \in DOMAIN files'[r] : files'[r][i] \notin Expected(kind'[r])
             \/ kind'[r] = "images-to-pdf" /\ files'[r] = <<>>)
         => /\ pc'[r] = "done"
            /\ fs' = fs
            /\ uid'[r] = 0
            /\ worker'[r] = "idle" /\ proc'[r] = "none"]_vars

\* a /word-to-pdf request was rejected by validation and has no identifier,
\* while an artifact of another request is in the scratch directory
C20_Witness ==
    \E r, q \in Reqs :
       /\ kind[r] = "word-to-pdf" /\ WrongType(r) /\ Answered(r)
       /\ uid[r] = 0
       /\ q # r /\ uid[q] # 0 /\ fs \cap PathsOfId(uid[q]) # {}


\* C21: in the step in which an executor returns a path to its endpoint, that
\* path names a file of the scratch directory; an engine that ended without
\* error and without an output file does not make its executor return.
C21_ReturnedPathExists ==
    [][\A r \in Reqs :
         (result[r] = NoPath /\ result'[r] # NoPath) => result'[r] \in fs']_vars

\* C22: while the engine thread or the converter process of a /pdf-to-word
\* or /word-to-pdf request runs, the input artifact of that request exists,
\* whether or not the request task has been cancelled meanwhile.
C22_InputKeptWhileEngineRuns ==
    \A r \in Reqs :
       (/\ kind[r] \in {"pdf-to-word", "word-to-pdf"}
        /\ worker[r] = "running" \/ proc[r] = "running")
       => InputPath(r) \in fs

====
